---- MODULE Spec2Model ----
(***************************************************************************)
(* A model of the stepRNA driver script (stepRNA-script_oldV2.py): the     *)
(* dependency guards, argument handling, preprocessing, the aligner        *)
(* command line, the per-record overhang accumulation loop and the         *)
(* overhang report (CSV, read-back, percentage normalisation, histogram).  *)
(* Python strings that the script inspects character by character (CIGAR   *)
(* strings, CSV cells) are sequences of one-character strings.             *)
(***************************************************************************)
EXTENDS Integers, Sequences, FiniteSets, TLC

VARIABLES
    pc,             \* position of the script
    hasBio,         \* environment: Biopython can be imported
    hasPysam,       \* environment: pysam can be imported
    argv,           \* environment: the command line
    stderr,         \* messages printed to sys.stderr
    exit_code,      \* status given to sys.exit, Running before that
    args,           \* result of parser.parse_args()
    ref,            \* the script's variable ref
    reads,          \* the script's variable reads
    min_score,      \* the script's variable min_score
    minimum,        \* shortest sequence found by mini_maxi
    maximum,        \* longest sequence found by mini_maxi
    exact_removed,  \* remove_exact.main has run
    build_cmd,      \* the bowtie2-build command that was run
    command,        \* the bowtie2 command that was run
    references,     \* bam_in.references
    right_dic, left_dic, type_dic, read_len_dic, refs_read_dic,
    partitions,     \* records written per per-type output file
    nread,          \* alignment records taken from bam_in so far
    nclassified,    \* records for which both overhang functions returned
    nskipped,       \* records dropped by the except clause
    last,           \* the record handled by the latest loop iteration
    overhang_csv,   \* rows of <prefix>_overhang.csv, empty before make_csv
    other_csv,      \* rows of the type, read-length and reference-hit files
    keys, left_dens, right_dens, left_tot, right_tot,
    hist_out        \* histograms printed by print_hist

vars == <<pc, hasBio, hasPysam, argv, stderr, exit_code, args, ref, reads,
          min_score, minimum, maximum, exact_removed, build_cmd, command,
          references, right_dic, left_dic, type_dic, read_len_dic,
          refs_read_dic, partitions, nread, nclassified, nskipped, last,
          overhang_csv, other_csv, keys, left_dens, right_dens, left_tot, right_tot,
          hist_out>>

\* Bound on the number of alignment records in the BAM file.
MaxRecords == 3

envVars == <<hasBio, hasPysam, argv>>
outVars == <<stderr, exit_code>>
cfgVars == <<args, ref, reads, min_score, minimum, maximum, exact_removed,
             build_cmd, command>>
tableVars == <<right_dic, left_dic, type_dic, read_len_dic, refs_read_dic>>
loopVars == <<references, partitions, nread, nclassified, nskipped, last>>
reportVars == <<overhang_csv, other_csv, keys, left_dens, right_dens, left_tot,
                right_tot, hist_out>>

(***************************************************************************)
(* Python values                                                           *)
(***************************************************************************)

\* defaultdict(lambda:0)
EmptyDict == [k \in {} |-> 0]

\* d[k] on a defaultdict(lambda:0), read only
Get(d, k) == IF k \in DOMAIN d THEN d[k] ELSE 0

\* d[k] += 1
Inc(d, k) == IF k \in DOMAIN d THEN [d EXCEPT ![k] = @ + 1] ELSE d @@ (k :> 1)

RECURSIVE SumDict(_)
SumDict(d) ==
    IF DOMAIN d = {} THEN 0
    ELSE LET k == CHOOSE x \in DOMAIN d : TRUE
         IN d[k] + SumDict([x \in DOMAIN d \ {k} |-> d[x]])

Digit == <<"0", "1", "2", "3", "4", "5", "6", "7", "8", "9">>

\* str(n) for n >= 0
RECURSIVE Str(_)
Str(n) == IF n < 10 THEN <<Digit[n + 1]>>
          ELSE Str(n \div 10) \o <<Digit[(n % 10) + 1]>>

DigitVal(c) == (CHOOSE i \in 1..10 : Digit[i] = c) - 1

\* int(s) for a string of decimal digits
RECURSIVE Int_(_)
Int_(s) == IF s = <<>> THEN 0
           ELSE 10 * Int_(SubSeq(s, 1, Len(s) - 1)) + DigitVal(s[Len(s)])

\* a or b on strings: the first operand if it is non-empty, else the second
PyOr(a, b) == IF a # "" THEN a ELSE b

\* c in s, for a one-character string c
In(c, s) == \E i \in 1..Len(s) : s[i] = c

Min(S) == CHOOSE x \in S : \A y \in S : x <= y
Max(S) == CHOOSE x \in S : \A y \in S : x >= y

\* sorted(S)
RECURSIVE Sorted(_)
Sorted(S) == IF S = {} THEN <<>> ELSE <<Min(S)>> \o Sorted(S \ {Min(S)})

(***************************************************************************)
(* Environment: files and the command line                                 *)
(***************************************************************************)

\* A FASTA file: which input it holds and whether its headers were made unique.
NoFile == [origin |-> "none", unique |-> FALSE]
RefFile == [origin |-> "reference", unique |-> FALSE]
ReadsFile == [origin |-> "reads", unique |-> FALSE]

\* Sequence lengths found in the two user files.
ReferenceLengths == {4, 5}
ReadLengths == {2, 3}

Lengths(file) == IF file.origin = "reads" THEN ReadLengths ELSE ReferenceLengths

\* Values of -m the model tries; given = FALSE is a command line without -m.
MinScoreOptions ==
    {[given |-> FALSE, value |-> 0]}
        \cup {[given |-> TRUE, value |-> v] : v \in {0 - 1, 2}}

Argv == [m : MinScoreOptions, u : BOOLEAN, e : BOOLEAN]

\* exit_code while the script has not called sys.exit
Running == 0 - 1

NoArgs == [parsed |-> FALSE, min_score |-> 0, make_unique |-> FALSE,
           remove_exact |-> FALSE]

NoCommand == [run |-> FALSE, x |-> NoFile, U |-> NoFile, mp |-> 0,
              ma |-> 0, score_min |-> 0]

NoBuild == [run |-> FALSE, fasta |-> NoFile]

NoRecord == [has_cigar |-> FALSE, cigar |-> <<>>, reference_name |-> "none",
             outcome |-> "none", classifier_called |-> FALSE]

NoCsv == [type |-> {}, read_len |-> <<>>, ref_hits |-> {}]

(***************************************************************************)
(* Start-up: dependency guards and arguments                               *)
(***************************************************************************)

Init ==
    /\ pc = "import_bio"
    /\ hasBio \in BOOLEAN
    /\ hasPysam \in BOOLEAN
    /\ argv \in Argv
    /\ stderr = <<>>
    /\ exit_code = Running
    /\ args = NoArgs
    /\ ref = NoFile
    /\ reads = NoFile
    /\ min_score = 0
    /\ minimum = 0
    /\ maximum = 0
    /\ exact_removed = FALSE
    /\ build_cmd = NoBuild
    /\ command = NoCommand
    /\ references = {}
    /\ right_dic = EmptyDict
    /\ left_dic = EmptyDict
    /\ type_dic = EmptyDict
    /\ read_len_dic = EmptyDict
    /\ refs_read_dic = EmptyDict
    /\ partitions = EmptyDict
    /\ nread = 0
    /\ nclassified = 0
    /\ nskipped = 0
    /\ last = NoRecord
    /\ overhang_csv = <<>>
    /\ other_csv = NoCsv
    /\ keys = <<>>
    /\ left_dens = <<>>
    /\ right_dens = <<>>
    /\ left_tot = 0
    /\ right_tot = 0
    /\ hist_out = <<>>

\* Mutant: the guards exit with a success status.
ImportErrorStatusZero == 1 - 1

\* sys.exit(1) in the two except ImportError clauses
ImportErrorStatus == 1

ImportBio ==
    /\ pc = "import_bio"
    /\ IF hasBio
       THEN /\ pc' = "import_pysam"
            /\ UNCHANGED outVars
       ELSE /\ stderr' = Append(stderr, "Error: Biopython not found")
            /\ exit_code' = ImportErrorStatus
            /\ pc' = "exit"
    /\ UNCHANGED <<envVars, cfgVars, tableVars, loopVars, reportVars>>

ImportPysam ==
    /\ pc = "import_pysam"
    /\ IF hasPysam
       THEN /\ pc' = "parse_args"
            /\ UNCHANGED outVars
       ELSE /\ stderr' = Append(stderr, "Error: Pysam not found")
            /\ exit_code' = ImportErrorStatus
            /\ pc' = "exit"
    /\ UNCHANGED <<envVars, cfgVars, tableVars, loopVars, reportVars>>

\* add_argument('-m', '--min_score', default=-1, type=int)
MinScoreDefault == 0 - 1

ParseMinScore(m) == IF m.given THEN m.value ELSE MinScoreDefault

ParseArgs ==
    /\ pc = "parse_args"
    /\ args' = [parsed |-> TRUE,
                min_score |-> ParseMinScore(argv.m),
                make_unique |-> argv.u,
                remove_exact |-> argv.e]
    /\ ref' = RefFile
    /\ reads' = ReadsFile
    /\ min_score' = ParseMinScore(argv.m)
    /\ pc' = "remove_exact"
    /\ UNCHANGED <<envVars, outVars, minimum, maximum, exact_removed,
                   build_cmd, command, tableVars, loopVars, reportVars>>

(***************************************************************************)
(* Preprocessing and the aligner                                           *)
(***************************************************************************)

RemoveExact ==
    /\ pc = "remove_exact"
    /\ exact_removed' = args.remove_exact
    /\ pc' = "make_unique"
    /\ UNCHANGED <<envVars, outVars, args, ref, reads, min_score, minimum,
                   maximum, build_cmd, command, tableVars, loopVars,
                   reportVars>>

\* stepRNA.processing.make_unique: returns the file with unique headers
make_unique(file) == [file EXCEPT !.unique = TRUE]

\* if args.make_unique: reads = make_unique(reads); reads = make_unique(ref)
ReadsAfterUnique(rd, rf) ==
    LET reads1 == make_unique(rd)
        reads2 == make_unique(rf)
    IN reads2

MakeUnique ==
    /\ pc = "make_unique"
    /\ reads' = IF args.make_unique THEN ReadsAfterUnique(reads, ref) ELSE reads
    /\ pc' = "build_index"
    /\ UNCHANGED <<envVars, outVars, args, ref, min_score, minimum, maximum,
                   exact_removed, build_cmd, command, tableVars, loopVars,
                   reportVars>>

BuildIndex ==
    /\ pc = "build_index"
    /\ build_cmd' = [run |-> TRUE, fasta |-> ref]
    /\ pc' = "mini_maxi"
    /\ UNCHANGED <<envVars, outVars, args, ref, reads, min_score, minimum,
                   maximum, exact_removed, command, tableVars, loopVars,
                   reportVars>>

\* stepRNA.general.mini_maxi: shortest and longest sequence of a FASTA file
mini_maxi(file) == <<Min(Lengths(file)), Max(Lengths(file))>>

MiniMaxi ==
    /\ pc = "mini_maxi"
    /\ minimum' = mini_maxi(reads)[1]
    /\ maximum' = mini_maxi(reads)[2]
    /\ pc' = "set_min_score"
    /\ UNCHANGED <<envVars, outVars, args, ref, reads, min_score,
                   exact_removed, build_cmd, command, tableVars, loopVars,
                   reportVars>>

\* the match bonus: --ma 3 and the factor of lines 100 and 102
MatchBonus == 3

ScoreMin(ms, mini) ==
    IF ms # 0 - 1 THEN MatchBonus * ms ELSE MatchBonus * mini

SetMinScore ==
    /\ pc = "set_min_score"
    /\ min_score' = ScoreMin(min_score, minimum)
    /\ pc' = "bowtie"
    /\ UNCHANGED <<envVars, outVars, args, ref, reads, minimum, maximum,
                   exact_removed, build_cmd, command, tableVars, loopVars,
                   reportVars>>

RunBowtie ==
    /\ pc = "bowtie"
    /\ command' = [run |-> TRUE, x |-> build_cmd.fasta,
                   U |-> reads, mp |-> maximum,
                   ma |-> MatchBonus, score_min |-> min_score]
    /\ pc' = "open_bam"
    /\ UNCHANGED <<envVars, outVars, args, ref, reads, min_score, minimum,
                   maximum, exact_removed, build_cmd, tableVars, loopVars,
                   reportVars>>

(***************************************************************************)
(* Alignment records                                                       *)
(***************************************************************************)

RefNames == {"ref1", "ref2"}

Op(o, n) == [op |-> o, len |-> n]

\* The CIGARs of the records the BAM file may hold.
Cigars ==
    { <<Op("M", 2)>>,
      <<Op("S", 1), Op("M", 1)>>,
      <<Op("M", 1), Op("S", 1)>>,
      <<Op("S", 2), Op("M", 1)>>,
      <<Op("M", 1), Op("I", 1), Op("M", 1)>>,
      <<Op("M", 1), Op("D", 1), Op("M", 1)>>,
      <<Op("S", 2)>> }

\* An AlignedSegment; has_cigar = FALSE is a record whose cigarstring is None.
Records ==
    [has_cigar : {TRUE}, cigar : Cigars, reference_name : RefNames]
        \cup [has_cigar : {FALSE}, cigar : {<<>>}, reference_name : RefNames]

\* pysam AlignedSegment.cigarstring, e.g. 1S1M
RECURSIVE cigarstring(_)
cigarstring(c) ==
    IF c = <<>> THEN <<>>
    ELSE Str(Head(c).len) \o <<Head(c).op>> \o cigarstring(Tail(c))

\* The reference position of a query base that has none.
Unmapped == 0 - 1

\* pysam AlignedSegment.get_reference_positions(full_length = True), for a
\* record whose alignment starts at reference position start
RECURSIVE get_reference_positions(_, _)
get_reference_positions(c, start) ==
    IF c = <<>> THEN <<>>
    ELSE LET o == Head(c) IN
         CASE o.op = "M" ->
                [i \in 1..o.len |-> start + i - 1]
                    \o get_reference_positions(Tail(c), start + o.len)
           [] o.op = "D" -> get_reference_positions(Tail(c), start + o.len)
           [] OTHER ->
                [i \in 1..o.len |-> Unmapped]
                    \o get_reference_positions(Tail(c), start)

\* pysam AlignedSegment.query_length
query_length(rec) == Len(get_reference_positions(rec.cigar, 0))

HasIndel(rec) ==
    \E i \in 1..Len(rec.cigar) : rec.cigar[i].op \in {"I", "D"}

(***************************************************************************)
(* Overhang classifier (stepRNA.commands)                                  *)
(***************************************************************************)

RECURSIVE Leading(_)
Leading(pos) ==
    IF pos = <<>> \/ Head(pos) # Unmapped THEN 0 ELSE 1 + Leading(Tail(pos))

RECURSIVE Reverse(_)
Reverse(s) == IF s = <<>> THEN <<>> ELSE Reverse(Tail(s)) \o <<Head(s)>>

\* The classification raises on a malformed position array.
Malformed(pos) == pos = <<>> \/ \A i \in 1..Len(pos) : pos[i] = Unmapped

right_overhang(line, ref_pos) ==
    LET n == Leading(Reverse(ref_pos))
    IN [raised |-> Malformed(ref_pos),
        length |-> n,
        type |-> IF n = 0 THEN "flush" ELSE "3OH"]

left_overhang(line, ref_pos) ==
    LET n == Leading(ref_pos)
    IN [raised |-> Malformed(ref_pos),
        length |-> n,
        type |-> IF n = 0 THEN "flush" ELSE "5OH"]

(***************************************************************************)
(* The record loop                                                         *)
(***************************************************************************)

\* sam_to_bam, pysam.AlignmentFile and the five defaultdicts
InitialRefsRead(names) == [name \in names |-> 0]

OpenBam ==
    /\ pc = "open_bam"
    /\ references' = RefNames
    /\ right_dic' = EmptyDict
    /\ left_dic' = EmptyDict
    /\ type_dic' = EmptyDict
    /\ read_len_dic' = EmptyDict
    /\ refs_read_dic' = InitialRefsRead(RefNames)
    /\ pc' = "loop"
    /\ UNCHANGED <<envVars, outVars, cfgVars, partitions, nread, nclassified,
                   nskipped, last, reportVars>>

\* if line.cigarstring != None: if ('D' or 'I') not in line.cigarstring:
PassesFilter(rec) ==
    /\ rec.has_cigar
    /\ ~In(PyOr("D", "I"), cigarstring(rec.cigar))

\* left_type + '_' + right_type
TypeKey(left_type, right_type) == left_type \o "_" \o right_type

\* Mutants of the accumulation lines.
CountLeftDropped(d, left) == d
CountTypeDropped(d, left_type, right_type) == d
CountReadLenTwice(d, line) == Inc(Inc(d, query_length(line)), query_length(line))

CountRight(d, right) == Inc(d, right)
CountLeft(d, left) == Inc(d, left)
CountType(d, left_type, right_type) == Inc(d, TypeKey(left_type, right_type))
CountReadLen(d, line) == Inc(d, query_length(line))
CountRef(d, line) == Inc(d, line.reference_name)

\* stepRNA.output.write_to_bam: the record goes to the file of its type
write_to_bam(p, line, left_type, right_type) ==
    Inc(p, TypeKey(left_type, right_type))

\* Mutant: the except clause leaves the loop instead of continuing.
AfterExceptionBreak == "make_csv"

\* except Exception: continue
AfterException == "loop"

\* The record of an iteration, with what the iteration did to it.
Handled(line, outcome, called) ==
    [has_cigar |-> line.has_cigar, cigar |-> line.cigar,
     reference_name |-> line.reference_name, outcome |-> outcome,
     classifier_called |-> called]

LoopBody(line) ==
    LET ref_pos == get_reference_positions(line.cigar, 0)
        r == right_overhang(line, ref_pos)
        l == left_overhang(line, ref_pos)
    IN
    /\ nread' = nread + 1
    /\ IF ~PassesFilter(line)
       THEN /\ last' = Handled(line, "filtered", FALSE)
            /\ pc' = "loop"
            /\ UNCHANGED <<tableVars, partitions, nclassified, nskipped>>
       ELSE IF r.raised \/ l.raised
       THEN /\ last' = Handled(line, "skipped", TRUE)
            /\ nskipped' = nskipped + 1
            /\ pc' = AfterException
            /\ UNCHANGED <<tableVars, partitions, nclassified>>
       ELSE /\ right_dic' = CountRight(right_dic, r.length)
            /\ left_dic' = CountLeft(left_dic, l.length)
            /\ type_dic' = CountType(type_dic, l.type, r.type)
            /\ read_len_dic' = CountReadLen(read_len_dic, line)
            /\ refs_read_dic' = CountRef(refs_read_dic, line)
            /\ partitions' = write_to_bam(partitions, line, l.type, r.type)
            /\ nclassified' = nclassified + 1
            /\ last' = Handled(line, "counted", TRUE)
            /\ pc' = "loop"
            /\ UNCHANGED nskipped

NextRecord ==
    /\ pc = "loop"
    /\ nread < MaxRecords
    /\ \E rec \in Records :
          LoopBody(rec)
    /\ UNCHANGED <<envVars, outVars, cfgVars, references, reportVars>>

\* bam_in is exhausted
EndOfRecords ==
    /\ pc = "loop"
    /\ pc' = "make_csv"
    /\ UNCHANGED <<envVars, outVars, cfgVars, tableVars, loopVars, reportVars>>

(***************************************************************************)
(* Report                                                                  *)
(***************************************************************************)

\* stepRNA.output.make_csv: a header row, then one row per key of the
\* dictionaries in key order, holding the key and its count in each
\* dictionary, in the order the dictionaries are given
make_csv(dics, headers) ==
    LET ks == Sorted(DOMAIN dics[1] \cup DOMAIN dics[2])
    IN <<headers>> \o [i \in 1..Len(ks) |->
                         <<Str(ks[i]), Str(Get(dics[1], ks[i])),
                           Str(Get(dics[2], ks[i]))>>]

\* stepRNA.output.make_type_csv: the rows of one dictionary after the header
make_type_csv(dic) == {<<k, Str(dic[k])>> : k \in DOMAIN dic}

make_type_csv_sorted(dic) ==
    LET ks == Sorted(DOMAIN dic)
    IN [i \in 1..Len(ks) |-> <<Str(ks[i]), Str(dic[ks[i]])>>]

\* make_csv([right_dic, left_dic], ..., ['OH','Left','Right'])
OverhangCsv(right, left) == make_csv(<<right, left>>, <<"OH", "Left", "Right">>)

MakeCsv ==
    /\ pc = "make_csv"
    /\ overhang_csv' = OverhangCsv(right_dic, left_dic)
    /\ other_csv' = [type |-> make_type_csv(type_dic),
                     read_len |-> make_type_csv_sorted(read_len_dic),
                     ref_hits |-> make_type_csv(refs_read_dic)]
    /\ pc' = "read_csv"
    /\ UNCHANGED <<envVars, outVars, cfgVars, tableVars, loopVars, keys,
                   left_dens, right_dens, left_tot, right_tot, hist_out>>

RECURSIVE SumSeq(_)
SumSeq(s) == IF s = <<>> THEN 0 ELSE Head(s) + SumSeq(Tail(s))

\* the rows after head = next(csv_reader)
DataRows(csv) == Tail(csv)

\* left_dens.append(int(line[1])) and right_dens.append(int(line[2])), with
\* Python's 0-based line[1] and line[2] being the second and third cell
LeftCell(line) == Int_(line[2])
RightCell(line) == Int_(line[3])

ReadCsv ==
    /\ pc = "read_csv"
    /\ LET rows == DataRows(overhang_csv) IN
       /\ keys' = [i \in 1..Len(rows) |-> rows[i][1]]
       /\ left_dens' = [i \in 1..Len(rows) |-> LeftCell(rows[i])]
       /\ right_dens' = [i \in 1..Len(rows) |-> RightCell(rows[i])]
       /\ left_tot' = SumSeq([i \in 1..Len(rows) |-> LeftCell(rows[i])])
       /\ right_tot' = SumSeq([i \in 1..Len(rows) |-> RightCell(rows[i])])
    /\ pc' = "normalise"
    /\ UNCHANGED <<envVars, outVars, cfgVars, tableVars, loopVars,
                   overhang_csv, other_csv, hist_out>>

\* 100 * count / tot, as the exact fraction the float approximates
Percent(count, tot) == [num |-> 100 * count, den |-> tot]

\* Mutant: the totals are divided by before the loop over the keys.
DividesByZeroHoisted(ks, ltot, rtot) == ltot = 0 \/ rtot = 0

\* the division of line 166 or 167 is reached with a zero total
DividesByZero(ks, ltot, rtot) == ks # <<>> /\ (ltot = 0 \/ rtot = 0)

\* an uncaught exception ends the interpreter with status 1
UncaughtStatus == 1

Normalise ==
    /\ pc = "normalise"
    /\ IF DividesByZero(keys, left_tot, right_tot)
       THEN /\ stderr' = Append(stderr, "ZeroDivisionError")
            /\ exit_code' = UncaughtStatus
            /\ pc' = "crash"
            /\ UNCHANGED <<left_dens, right_dens>>
       ELSE /\ left_dens' = [i \in 1..Len(keys) |->
                                Percent(left_dens[i], left_tot)]
            /\ right_dens' = [i \in 1..Len(keys) |->
                                Percent(right_dens[i], right_tot)]
            /\ pc' = "print_hist"
            /\ UNCHANGED outVars
    /\ UNCHANGED <<envVars, cfgVars, tableVars, loopVars, overhang_csv,
                   other_csv, keys, left_tot, right_tot, hist_out>>

\* stepRNA.output.print_hist: one bar per key, labelled with the key
print_hist(title, dens, ks) == [title |-> title, dens |-> dens, keys |-> ks]

PrintHist ==
    /\ pc = "print_hist"
    /\ hist_out' =
          <<print_hist("Left Handside Overhang Histogram", left_dens, keys),
            print_hist("Right Handside Overhang Histogram", right_dens, keys)>>
    /\ pc' = "done"
    /\ UNCHANGED <<envVars, outVars, cfgVars, tableVars, loopVars,
                   overhang_csv, other_csv, keys, left_dens, right_dens,
                   left_tot, right_tot>>

Next ==
    \/ ImportBio \/ ImportPysam \/ ParseArgs
    \/ RemoveExact \/ MakeUnique \/ BuildIndex \/ MiniMaxi \/ SetMinScore
    \/ RunBowtie \/ OpenBam \/ NextRecord \/ EndOfRecords
    \/ MakeCsv \/ ReadCsv \/ Normalise \/ PrintHist

Spec == Init /\ [][Next]_vars

(***************************************************************************)
(* Properties                                                              *)
(***************************************************************************)

RefPos(rec) == get_reference_positions(rec.cigar, 0)

\* Both overhang functions were called on the record and returned normally.
Classified(rec) == rec.classifier_called /\ ~Malformed(RefPos(rec))

\* d2 is d with exactly one more at key k and nothing else changed.
IncrementedAt(d, d2, k) ==
    /\ Get(d2, k) = Get(d, k) + 1
    /\ \A j \in (DOMAIN d \cup DOMAIN d2) \ {k} : Get(d2, j) = Get(d, j)

Reporting == pc \in {"make_csv", "read_csv", "normalise", "print_hist",
                     "done", "crash"}

\* The five tables and the partitions hold the same number of records.
SameTotals ==
    LET written == SumDict(partitions)
    IN /\ written = SumDict(right_dic)
       /\ written = SumDict(left_dic)
       /\ written = SumDict(type_dic)
       /\ written = SumDict(read_len_dic)
       /\ written = SumDict(refs_read_dic)

C2_IndelNeverClassified ==
    (last.outcome # "none" /\ (~last.has_cigar \/ HasIndel(last)))
        => (~last.classifier_called /\ last.outcome = "filtered")

\* C3: when the classification of a record raises, the iteration changes no
\* table and no partition and the loop goes on to the next record.
C3_FailureSkipsRecord ==
    [][(pc = "loop" /\ nread' = nread + 1
            /\ last'.classifier_called /\ Malformed(RefPos(last')))
         => (/\ tableVars' = tableVars
             /\ partitions' = partitions
             /\ nclassified' = nclassified
             /\ pc' = "loop")]_vars

C3_Witness ==
    /\ nskipped >= 1
    /\ last.outcome = "counted"
    /\ SumDict(read_len_dic) >= 1

\* C4: when the record loop has ended, the counts of the read-length table
\* sum to the number of classified records, and so do those of the
\* left-length, right-length and type tables.
C4_TotalsEqualClassified ==
    Reporting =>
        /\ SumDict(read_len_dic) = nclassified
        /\ SumDict(left_dic) = nclassified
        /\ SumDict(right_dic) = nclassified
        /\ SumDict(type_dic) = nclassified

C4_Witness ==
    /\ pc = "make_csv"
    /\ nclassified >= 2
    /\ nclassified < nread

\* C5 as stated: with no alignment record, all the tables, the reference-hit
\* table included, are empty when reported, and the report raises no error.
C5_AllTablesEmpty ==
    (Reporting /\ nread = 0) =>
        /\ DOMAIN right_dic = {}
        /\ DOMAIN left_dic = {}
        /\ DOMAIN type_dic = {}
        /\ DOMAIN read_len_dic = {}
        /\ DOMAIN refs_read_dic = {}
        /\ pc # "crash"

\* C5 as amended: with no alignment record, the overhang-length, type and
\* read-length tables are empty and the reference-hit table holds a count of
\* 0 for every reference of the alignment header; the report reads back no
\* key, divides by nothing and raises no error.
C5_EmptyInputReport ==
    (Reporting /\ nread = 0) =>
        /\ DOMAIN right_dic = {}
        /\ DOMAIN left_dic = {}
        /\ DOMAIN type_dic = {}
        /\ DOMAIN read_len_dic = {}
        /\ DOMAIN refs_read_dic = references
        /\ \A name \in references : refs_read_dic[name] = 0
        /\ pc # "crash"
        /\ exit_code = Running
        /\ (pc \in {"normalise", "print_hist", "done"} => keys = <<>>)
        /\ (pc = "done" => /\ Len(hist_out) = 2
                           /\ hist_out[1].dens = <<>>
                           /\ hist_out[2].dens = <<>>)

C5_Witness == pc = "done" /\ nread = 0 /\ references # {}

Add(a, b) == [num |-> a.num * b.den + b.num * a.den, den |-> a.den * b.den]

RECURSIVE SumFractions(_)
SumFractions(s) ==
    IF s = <<>> THEN [num |-> 0, den |-> 1]
    ELSE Add(Head(s), SumFractions(Tail(s)))

IsHundred(f) == f.den # 0 /\ f.num = 100 * f.den

\* C6: whenever the overhang table read back from the CSV is non-empty, both
\* totals are positive, no division by zero occurs, and the percentages of the
\* left histogram and those of the right histogram each sum to 100.
C6_PercentagesSumTo100 ==
    /\ pc # "crash"
    /\ (pc = "normalise" /\ keys # <<>>) => (left_tot > 0 /\ right_tot > 0)
    /\ (pc \in {"print_hist", "done"} /\ keys # <<>>) =>
           /\ IsHundred(SumFractions(left_dens))
           /\ IsHundred(SumFractions(right_dens))
    /\ (pc = "done" /\ keys # <<>>) =>
           /\ IsHundred(SumFractions(hist_out[1].dens))
           /\ IsHundred(SumFractions(hist_out[2].dens))

C6_Witness ==
    /\ pc = "done"
    /\ Len(keys) >= 3
    /\ \E i \in 1..Len(keys) : left_dens[i].num = 0
    /\ \E i \in 1..Len(keys) : right_dens[i].num # left_dens[i].num

\* C7: with the make-headers-unique flag, the file given to the aligner as
\* -U and to the min/max read-length computation is the uniquified read
\* file, and the index is built from the reference.
C7_ReadsStayReads ==
    (command.run /\ args.make_unique) =>
        /\ command.U.origin = "reads"
        /\ command.U.unique
        /\ minimum = Min(ReadLengths)
        /\ maximum = Max(ReadLengths)
        /\ build_cmd.fasta.origin = "reference"

\* C8: the minimum score given to the aligner is 3 * m whenever the user
\* gives -m m, and 3 * (the shortest length found) when no -m is given.
C8_ScoreMinFromUser ==
    command.run =>
        /\ argv.m.given => command.score_min = 3 * argv.m.value
        /\ ~argv.m.given => command.score_min = 3 * minimum

\* C9: when Biopython or pysam is missing, the script prints an error and
\* exits with a non-zero status; it parses no argument, runs no aligner
\* command, reads no record, fills no table and writes no file.
C9_MissingDependencyExits ==
    (~hasBio \/ ~hasPysam) =>
        /\ pc \in {"import_bio", "import_pysam", "exit"}
        /\ (pc = "exit" => /\ exit_code \notin {0, Running}
                           /\ Len(stderr) = 1)
        /\ ~args.parsed
        /\ ~build_cmd.run
        /\ ~command.run
        /\ ~exact_removed
        /\ nread = 0
        /\ \A d \in {right_dic, left_dic, type_dic, read_len_dic,
                     refs_read_dic, partitions} : DOMAIN d = {}
        /\ overhang_csv = <<>>
        /\ other_csv = NoCsv
        /\ hist_out = <<>>

C9_Witness == pc = "exit" /\ hasBio /\ ~hasPysam

\* C10: in the overhang report, the Left column and the left histogram hold
\* the left-overhang table's counts, the Right column and the right
\* histogram the right-overhang table's.
C10_LeftIsLeft ==
    /\ pc \in {"read_csv", "normalise", "print_hist", "done"} =>
          \A i \in 2..Len(overhang_csv) :
             /\ Int_(overhang_csv[i][2]) = Get(left_dic, Int_(overhang_csv[i][1]))
             /\ Int_(overhang_csv[i][3]) = Get(right_dic, Int_(overhang_csv[i][1]))
    /\ pc = "done" =>
          /\ hist_out[1].title = "Left Handside Overhang Histogram"
          /\ hist_out[2].title = "Right Handside Overhang Histogram"
          /\ \A i \in 1..Len(keys) :
                /\ hist_out[1].dens[i].num = 100 * Get(left_dic, Int_(keys[i]))
                /\ hist_out[2].dens[i].num = 100 * Get(right_dic, Int_(keys[i]))
====
